---- MODULE Spec2Model ----
(***************************************************************************)
(* Model of localotaku_tgbot.utils.trie.AnimeTrie: the record table        *)
(* (_anime_by_id), the three tries (_root, _genre_trie, _studio_trie),     *)
(* text normalization, insertion, removal, clear and the query methods.    *)
(*                                                                         *)
(* A text is a sequence of characters; a character is a one-token string.  *)
(* "a_acute" is the precomposed letter U+00E1, "acute" the combining mark  *)
(* U+0301, "TAB" the tab character, "!" a punctuation character.           *)
(***************************************************************************)
EXTENDS Integers, Sequences, FiniteSets, TLC

VARIABLES anime_by_id, root, genre_trie, studio_trie, ret, removed,
          norm_in, norm_out, adding

vars == <<anime_by_id, root, genre_trie, studio_trie, ret, removed,
          norm_in, norm_out, adding>>

index_vars == <<anime_by_id, root, genre_trie, studio_trie>>

(***************************************************************************)
(* Bounds                                                                  *)
(***************************************************************************)
MaxId == 2

MaxLimit == 1

MaxLen == 3

\* the absent value of an optional text (distinct from every text)
None == <<"None">>

\* the absent value of the optional limit; a given limit n is <<n>>
NoLimit == <<>>

(***************************************************************************)
(* Characters and _normalize_text                                          *)
(***************************************************************************)
Letters == {"a", "b", "c"}

Upper == {"A", "B", "C"}

Whitespace == {" ", "TAB"}

IsSpace(c) == c \in Whitespace

\* unicodedata.normalize("NFKD", c) for one character
Decompose(c) == IF c = "a_acute" THEN <<"a", "acute">> ELSE <<c>>

RECURSIVE NFKD(_)
NFKD(text) ==
    IF text = <<>> THEN <<>> ELSE Decompose(Head(text)) \o NFKD(Tail(text))

\* unicodedata.combining(c) != 0
Combining(c) == c = "acute"

NotCombining(c) == ~Combining(c)

\* str.lower for one character
LowerChar(c) ==
    CASE c = "A" -> "a"
      [] c = "B" -> "b"
      [] c = "C" -> "c"
      [] OTHER -> c

Lower(text) == [i \in 1..Len(text) |-> LowerChar(text[i])]

RECURSIVE LStrip(_)
LStrip(text) ==
    IF text # <<>> /\ IsSpace(Head(text)) THEN LStrip(Tail(text)) ELSE text

RECURSIVE RStrip(_)
RStrip(text) ==
    IF text # <<>> /\ IsSpace(text[Len(text)])
    THEN RStrip(SubSeq(text, 1, Len(text) - 1))
    ELSE text

\* str.strip()
Strip(text) == RStrip(LStrip(text))

\* the character class [\w\s-]
IsWordSpaceHyphen(c) ==
    c \in Letters \cup Upper \cup Whitespace \cup {"-", "_", "a_acute"}

\* re.sub(r"[^\w\s-]", "", text)
DropPunctuation(text) == SelectSeq(text, IsWordSpaceHyphen)

\* re.sub(r"\s+", " ", text)
RECURSIVE CollapseSpace(_)
CollapseSpace(text) ==
    IF text = <<>> THEN <<>>
    ELSE IF IsSpace(Head(text))
         THEN <<" ">> \o CollapseSpace(LStrip(text))
         ELSE <<Head(text)>> \o CollapseSpace(Tail(text))

_normalize_text(text) ==
    CollapseSpace(DropPunctuation(Strip(Lower(SelectSeq(NFKD(text), NotCombining)))))

(***************************************************************************)
(* Ordering of characters and texts (Python compares str by code point)    *)
(***************************************************************************)
Ord(c) ==
    CASE c = "TAB" -> 9
      [] c = " " -> 32
      [] c = "!" -> 33
      [] c = "-" -> 45
      [] c = "A" -> 65
      [] c = "B" -> 66
      [] c = "C" -> 67
      [] c = "_" -> 95
      [] c = "a" -> 97
      [] c = "b" -> 98
      [] c = "c" -> 99
      [] c = "a_acute" -> 225
      [] c = "acute" -> 769

RECURSIVE TextLess(_, _)
TextLess(s, t) ==
    IF t = <<>> THEN FALSE
    ELSE IF s = <<>> THEN TRUE
    ELSE IF Head(s) # Head(t) THEN Ord(Head(s)) < Ord(Head(t))
    ELSE TextLess(Tail(s), Tail(t))

IsPrefix(p, t) == Len(p) <= Len(t) /\ SubSeq(t, 1, Len(p)) = p

(***************************************************************************)
(* entites/core.py: Anime                                                  *)
(***************************************************************************)
\* Python truthiness of an optional str: None and "" are falsy
Truthy(x) == x # None /\ x # <<>>

\* x or ""
OrEmpty(x) == IF Truthy(x) THEN x ELSE <<>>

display_title(anime) ==
    IF Truthy(anime.title_english) THEN anime.title_english
    ELSE IF Truthy(anime.title_japanese) THEN anime.title_japanese
    ELSE anime.title

Anime(id, b) ==
    [id |-> id, title |-> b.title, title_english |-> b.title_english,
     title_japanese |-> b.title_japanese, genres |-> b.genres,
     studios |-> b.studios]

(***************************************************************************)
(* The records offered to add_anime                                        *)
(***************************************************************************)
TextPool ==
    << [title |-> <<"A", "b">>, title_english |-> None,
        title_japanese |-> None,
        genres |-> << <<"A">> >>, studios |-> << <<"c">> >>],
       [title |-> <<"!">>, title_english |-> None,
        title_japanese |-> <<>>,
        genres |-> << <<>> >>, studios |-> << >>],
       [title |-> <<"a", "c">>, title_english |-> <<"A", "!">>,
        title_japanese |-> None,
        genres |-> << <<"b">> >>, studios |-> << <<"c">> >>],
       [title |-> <<"a_acute", " ", "b">>, title_english |-> None,
        title_japanese |-> <<"!", " ", "a">>,
        genres |-> << <<"a">>, <<"b">> >>,
        studios |-> << <<"c">>, <<"-">> >>] >>

Ids == 1..MaxId

\* each identifier is offered with two different texts of the pool
VariantIndexes(id) ==
    {((2 * (id - 1)) % Len(TextPool)) + 1, ((2 * (id - 1) + 1) % Len(TextPool)) + 1}

Records ==
    UNION {{Anime(id, TextPool[k]) : k \in VariantIndexes(id)} : id \in Ids}

(***************************************************************************)
(* TrieNode and the trie walks                                             *)
(* A trie is a function from the path of each existing node (the root is   *)
(* <<>>) to the node; node.children[c] exists iff Append(path, c) is in    *)
(* the domain.                                                             *)
(***************************************************************************)
TrieNode == [is_end_of_word |-> FALSE, anime_ids |-> {}]

EmptyTrie == (<<>> :> TrieNode)

\* _add_to_trie tagging only the node of the full key
RECURSIVE AddWalkTerminalOnly(_, _, _, _)
AddWalkTerminalOnly(trie, node, chars, anime_id) ==
    IF chars = <<>>
    THEN [trie EXCEPT ![node].is_end_of_word = TRUE,
                      ![node].anime_ids = @ \cup {anime_id}]
    ELSE LET child == Append(node, Head(chars))
             created == IF child \in DOMAIN trie THEN trie
                        ELSE trie @@ (child :> TrieNode)
         IN  AddWalkTerminalOnly(created, child, Tail(chars), anime_id)

RECURSIVE AddWalk(_, _, _, _)
AddWalk(trie, node, chars, anime_id) ==
    IF chars = <<>>
    THEN [trie EXCEPT ![node].is_end_of_word = TRUE,
                      ![node].anime_ids = @ \cup {anime_id}]
    ELSE LET child == Append(node, Head(chars))
             created == IF child \in DOMAIN trie THEN trie
                        ELSE trie @@ (child :> TrieNode)
             tagged == [created EXCEPT ![child].anime_ids = @ \cup {anime_id}]
         IN  AddWalk(tagged, child, Tail(chars), anime_id)

_add_to_trie(trie_root, text, anime_id) ==
    AddWalk(trie_root, <<>>, _normalize_text(text), anime_id)

RECURSIVE SearchWalk(_, _, _)
SearchWalk(trie, node, chars) ==
    IF chars = <<>> THEN trie[node].anime_ids
    ELSE LET child == Append(node, Head(chars))
         IN  IF child \notin DOMAIN trie THEN {}
             ELSE SearchWalk(trie, child, Tail(chars))

_search_in_trie(trie_root, prefix) ==
    SearchWalk(trie_root, <<>>, _normalize_text(prefix))

\* a walk that creates the children it misses, as the walk of _add_to_trie
TrieAfterWalkCreating(trie, prefix) ==
    LET key == _normalize_text(prefix)
        missing == {SubSeq(key, 1, n) : n \in 1..Len(key)} \ DOMAIN trie
    IN  trie @@ [n \in missing |-> TrieNode]

\* the trie after the walk of _search_in_trie or get_suggestions: the walk
\* returns at the first missing child and assigns nothing
TrieAfterWalk(trie, prefix) == trie

(***************************************************************************)
(* Materialization of identifier sets                                      *)
(***************************************************************************)
Min(S) == CHOOSE x \in S : \A y \in S : x <= y

\* sorted(anime_ids)
RECURSIVE sorted(_)
sorted(S) == IF S = {} THEN <<>> ELSE <<Min(S)>> \o sorted(S \ {Min(S)})

Ok(value) == [status |-> "ok", value |-> value]

KeyError(key) == [status |-> "KeyError", key |-> key]

\* [table[anime_id] for anime_id in ids]: fails at the first absent key
Materialize(table, ids) ==
    IF \A i \in 1..Len(ids) : ids[i] \in DOMAIN table
    THEN Ok([i \in 1..Len(ids) |-> table[ids[i]]])
    ELSE KeyError(ids[Min({i \in 1..Len(ids) : ids[i] \notin DOMAIN table})])

\* if limit: results = results[:limit]
Truncate(results, limit) ==
    IF limit # NoLimit /\ limit[1] # 0
    THEN SubSeq(results, 1, IF limit[1] < Len(results) THEN limit[1] ELSE Len(results))
    ELSE results

Limited(outcome, limit) ==
    IF outcome.status = "ok" THEN Ok(Truncate(outcome.value, limit)) ELSE outcome

(***************************************************************************)
(* Queries, as functions of the index state                                *)
(***************************************************************************)
SearchByTitle(table, title_trie, prefix, limit) ==
    Limited(Materialize(table, sorted(_search_in_trie(title_trie, prefix))), limit)

SearchByGenre(table, trie, genre_prefix) ==
    Materialize(table, sorted(_search_in_trie(trie, genre_prefix)))

SearchByStudio(table, trie, studio_prefix) ==
    Materialize(table, sorted(_search_in_trie(trie, studio_prefix)))

\* result_ids: Optional[Set[int]]
NoIds == [none |-> TRUE, ids |-> {}]

SomeIds(ids) == [none |-> FALSE, ids |-> ids]

\* advanced_search starting from result_ids = set() instead of None
AdvancedIdsEmptyDefault(table, tt, gt, st, title_prefix, genre_prefix, studio_prefix) ==
    LET r1 == IF Truthy(title_prefix)
              THEN _search_in_trie(tt, title_prefix) ELSE {}
        r2 == IF Truthy(genre_prefix)
              THEN r1 \cap _search_in_trie(gt, genre_prefix) ELSE r1
    IN  IF Truthy(studio_prefix)
        THEN r2 \cap _search_in_trie(st, studio_prefix) ELSE r2

\* the identifier set advanced_search computes before materialization
AdvancedIds(table, tt, gt, st, title_prefix, genre_prefix, studio_prefix) ==
    LET r1 == IF Truthy(title_prefix)
              THEN SomeIds(_search_in_trie(tt, title_prefix)) ELSE NoIds
        r2 == IF Truthy(genre_prefix)
              THEN LET genre_ids == _search_in_trie(gt, genre_prefix)
                   IN  IF r1.none THEN SomeIds(genre_ids)
                       ELSE SomeIds(r1.ids \cap genre_ids)
              ELSE r1
        r3 == IF Truthy(studio_prefix)
              THEN LET studio_ids == _search_in_trie(st, studio_prefix)
                   IN  IF r2.none THEN SomeIds(studio_ids)
                       ELSE SomeIds(r2.ids \cap studio_ids)
              ELSE r2
    IN  IF r3.none THEN DOMAIN table ELSE r3.ids

AdvancedSearch(table, tt, gt, st, title_prefix, genre_prefix, studio_prefix, limit) ==
    Limited(Materialize(table,
                sorted(AdvancedIds(table, tt, gt, st,
                                   title_prefix, genre_prefix, studio_prefix))),
            limit)

search_by_title_of(prefix, limit) == SearchByTitle(anime_by_id, root, prefix, limit)

search_by_genre_of(prefix) == SearchByGenre(anime_by_id, genre_trie, prefix)

search_by_studio_of(prefix) == SearchByStudio(anime_by_id, studio_trie, prefix)

advanced_search_of(t, g, s, limit) ==
    AdvancedSearch(anime_by_id, root, genre_trie, studio_trie, t, g, s, limit)

total_anime == Cardinality(DOMAIN anime_by_id)

\* every order in which the elements of a set may be iterated
Orders(S) ==
    {o \in [1..Cardinality(S) -> S] : \A i, j \in DOMAIN o : i # j => o[i] # o[j]}

\* sorted(texts)
RECURSIVE sorted_texts(_)
sorted_texts(S) ==
    IF S = {} THEN <<>>
    ELSE LET least == CHOOSE x \in S : \A y \in S : ~TextLess(y, x)
         IN  <<least>> \o sorted_texts(S \ {least})

\* get_all_anime: the stable sort keeps records of equal key in the order of
\* the dict, which the model does not record; every such order is an outcome
GetAllAnimeOutcomes(table) ==
    LET key(i) == Lower(display_title(table[i]))
    IN  {[k \in DOMAIN o |-> table[o[k]]] :
            o \in {q \in Orders(DOMAIN table) :
                     \A i, j \in DOMAIN q :
                        i < j => ~TextLess(key(q[j]), key(q[i]))}}

\* the walk of get_suggestions to the node of the prefix
RECURSIVE FindNode(_, _, _)
FindNode(trie, node, chars) ==
    IF chars = <<>> THEN [found |-> TRUE, node |-> node]
    ELSE LET child == Append(node, Head(chars))
         IN  IF child \notin DOMAIN trie THEN [found |-> FALSE, node |-> node]
             ELSE FindNode(trie, child, Tail(chars))

ChildrenOf(trie, node) ==
    {p \in DOMAIN trie : Len(p) = Len(node) + 1 /\ SubSeq(p, 1, Len(node)) = node}

\* the loop over current_node.anime_ids, for every iteration order of the set
RECURSIVE CollectTitles(_, _, _, _)
CollectTitles(table, ids, suggestions, max_suggestions) ==
    IF ids = {} THEN {suggestions}
    ELSE UNION {
           IF anime_id \in DOMAIN table
           THEN LET added == suggestions \cup {display_title(table[anime_id])}
                IN  IF Cardinality(added) >= max_suggestions THEN {added}
                    ELSE CollectTitles(table, ids \ {anime_id}, added,
                                       max_suggestions)
           ELSE CollectTitles(table, ids \ {anime_id}, suggestions,
                              max_suggestions)
           : anime_id \in ids}

\* the while loop over the stack, for every order of children.items()
RECURSIVE SuggestLoop(_, _, _, _, _)
SuggestLoop(table, trie, stack, suggestions, max_suggestions) ==
    IF stack = <<>> \/ Cardinality(suggestions) >= max_suggestions
    THEN {suggestions}
    ELSE LET current_node == stack[Len(stack)]
             popped == SubSeq(stack, 1, Len(stack) - 1)
             collected ==
                 IF trie[current_node].is_end_of_word
                 THEN CollectTitles(table, trie[current_node].anime_ids,
                                    suggestions, max_suggestions)
                 ELSE {suggestions}
         IN  UNION {SuggestLoop(table, trie, popped \o pushed, c, max_suggestions) :
                      c \in collected,
                      pushed \in Orders(ChildrenOf(trie, current_node))}

\* the lists get_suggestions may return
GetSuggestionsOutcomes(table, trie, prefix, max_suggestions) ==
    LET start == FindNode(trie, <<>>, _normalize_text(prefix))
    IN  IF ~start.found THEN {<<>>}
        ELSE {sorted_texts(found) :
                found \in SuggestLoop(table, trie, <<start.node>>, {},
                                      max_suggestions)}

(***************************************************************************)
(* Mutations                                                               *)
(***************************************************************************)
\* add_anime indexing the primary title only
TitleSetPrimaryOnly(anime) == {anime.title}

\* the set literal `titles` of add_anime
TitleSet(anime) ==
    {anime.title, display_title(anime),
     OrEmpty(anime.title_english), OrEmpty(anime.title_japanese)}

\* for title in titles: if title.strip(): _add_to_trie(...)
RECURSIVE AddTitles(_, _, _)
AddTitles(trie, titles, anime_id) ==
    IF titles = {} THEN trie
    ELSE LET title == CHOOSE t \in titles : TRUE
             next == IF Strip(title) # <<>>
                     THEN _add_to_trie(trie, title, anime_id) ELSE trie
         IN  AddTitles(next, titles \ {title}, anime_id)

\* for genre in anime.genres: _add_to_trie(..., genre.name, ...)
RECURSIVE AddNames(_, _, _)
AddNames(trie, names, anime_id) ==
    IF names = <<>> THEN trie
    ELSE AddNames(_add_to_trie(trie, Head(names), anime_id), Tail(names), anime_id)

EmptyTable == [i \in {} |-> i]

\* add_anime without the early return for an existing identifier
AddAnimeIndexNoGuard(table, tt, gt, st, anime) ==
    [table |-> [i \in DOMAIN table \cup {anime.id} |->
                  IF i = anime.id THEN anime ELSE table[i]],
     root |-> AddTitles(tt, TitleSet(anime), anime.id),
     genre_trie |-> AddNames(gt, anime.genres, anime.id),
     studio_trie |-> AddNames(st, anime.studios, anime.id)]

AddAnimeIndex(table, tt, gt, st, anime) ==
    IF anime.id \in DOMAIN table
    THEN [table |-> table, root |-> tt, genre_trie |-> gt, studio_trie |-> st]
    ELSE [table |-> table @@ (anime.id :> anime),
          root |-> AddTitles(tt, TitleSet(anime), anime.id),
          genre_trie |-> AddNames(gt, anime.genres, anime.id),
          studio_trie |-> AddNames(st, anime.studios, anime.id)]

add_anime(anime) ==
    LET new == AddAnimeIndex(anime_by_id, root, genre_trie, studio_trie, anime)
    IN  /\ anime_by_id' = new.table
        /\ root' = new.root
        /\ genre_trie' = new.genre_trie
        /\ studio_trie' = new.studio_trie
        /\ ret' = [op |-> "add_anime", anime |-> anime,
                   existed |-> anime.id \in DOMAIN anime_by_id,
                   replaced |-> IF anime.id \in DOMAIN removed
                                THEN <<removed[anime.id]>> ELSE <<>>]
        /\ removed' = [i \in DOMAIN removed \ {anime.id} |-> removed[i]]
        /\ UNCHANGED <<norm_in, norm_out, adding>>

\* remove_anime without the del statement
RemoveFromTableKeep(table, anime_id) == table

RemoveFromTable(table, anime_id) ==
    [i \in DOMAIN table \ {anime_id} |-> table[i]]

remove_anime(anime_id) ==
    /\ IF anime_id \notin DOMAIN anime_by_id
       THEN /\ ret' = [op |-> "remove_anime", anime_id |-> anime_id,
                       result |-> FALSE]
            /\ UNCHANGED <<anime_by_id, removed>>
       ELSE /\ anime_by_id' = RemoveFromTable(anime_by_id, anime_id)
            /\ removed' = [i \in DOMAIN removed \cup {anime_id} |->
                             IF i = anime_id THEN anime_by_id[anime_id]
                             ELSE removed[i]]
            /\ ret' = [op |-> "remove_anime", anime_id |-> anime_id,
                       result |-> TRUE]
    /\ UNCHANGED <<root, genre_trie, studio_trie, norm_in, norm_out, adding>>

\* clear without self._anime_by_id.clear()
ClearedTableKeep(table) == table

\* self._anime_by_id.clear()
ClearedTable(table) == EmptyTable

\* ret.dropped: the identifiers the table held when clear was called
clear ==
    /\ root' = EmptyTrie
    /\ genre_trie' = EmptyTrie
    /\ studio_trie' = EmptyTrie
    /\ anime_by_id' = ClearedTable(anime_by_id)
    /\ removed' = EmptyTable
    /\ ret' = [op |-> "clear", dropped |-> DOMAIN anime_by_id]
    /\ UNCHANGED <<norm_in, norm_out, adding>>

(***************************************************************************)
(* Query calls                                                             *)
(***************************************************************************)
\* the texts the callers pass as prefixes
TitleQueries == {<<"a">>, <<"A", "b">>}

GenreQueries == {<<"a">>}

StudioQueries == {<<"c">>}

SuggestQueries == {<<"a">>}

\* the <<title_prefix, genre_prefix, studio_prefix>> passed to advanced_search
AdvancedQueries ==
    {<<None, None, None>>, <<<<"a">>, <<"A">>, <<"c">>>>}

Limits == {NoLimit} \cup {<<n>> : n \in 0..MaxLimit}

search_by_title(prefix, limit) ==
    /\ ret' = [op |-> "search_by_title", prefix |-> prefix, limit |-> limit,
               result |-> search_by_title_of(prefix, limit)]
    /\ root' = TrieAfterWalk(root, prefix)
    /\ UNCHANGED <<anime_by_id, genre_trie, studio_trie, removed,
                   norm_in, norm_out, adding>>

search_by_genre(genre_prefix) ==
    /\ ret' = [op |-> "search_by_genre", prefix |-> genre_prefix,
               result |-> search_by_genre_of(genre_prefix)]
    /\ genre_trie' = TrieAfterWalk(genre_trie, genre_prefix)
    /\ UNCHANGED <<anime_by_id, root, studio_trie, removed,
                   norm_in, norm_out, adding>>

search_by_studio(studio_prefix) ==
    /\ ret' = [op |-> "search_by_studio", prefix |-> studio_prefix,
               result |-> search_by_studio_of(studio_prefix)]
    /\ studio_trie' = TrieAfterWalk(studio_trie, studio_prefix)
    /\ UNCHANGED <<anime_by_id, root, genre_trie, removed,
                   norm_in, norm_out, adding>>

advanced_search(title_prefix, genre_prefix, studio_prefix, limit) ==
    /\ ret' = [op |-> "advanced_search", title_prefix |-> title_prefix,
               genre_prefix |-> genre_prefix, studio_prefix |-> studio_prefix,
               limit |-> limit,
               result |-> advanced_search_of(title_prefix, genre_prefix,
                                             studio_prefix, limit)]
    /\ root' = IF Truthy(title_prefix)
               THEN TrieAfterWalk(root, title_prefix) ELSE root
    /\ genre_trie' = IF Truthy(genre_prefix)
                     THEN TrieAfterWalk(genre_trie, genre_prefix)
                     ELSE genre_trie
    /\ studio_trie' = IF Truthy(studio_prefix)
                      THEN TrieAfterWalk(studio_trie, studio_prefix)
                      ELSE studio_trie
    /\ UNCHANGED <<anime_by_id, removed, norm_in, norm_out, adding>>

DefaultMaxSuggestions == 10

MaxSuggestions == (0..MaxLimit) \cup {DefaultMaxSuggestions}

get_all_anime ==
    /\ \E result \in GetAllAnimeOutcomes(anime_by_id) :
          ret' = [op |-> "get_all_anime", result |-> result]
    /\ UNCHANGED <<index_vars, removed, norm_in, norm_out, adding>>

get_suggestions(prefix, max_suggestions) ==
    /\ \E result \in GetSuggestionsOutcomes(anime_by_id, root, prefix,
                                            max_suggestions) :
          ret' = [op |-> "get_suggestions", prefix |-> prefix,
                  max_suggestions |-> max_suggestions, result |-> result]
    /\ root' = TrieAfterWalk(root, prefix)
    /\ UNCHANGED <<anime_by_id, genre_trie, studio_trie, removed,
                   norm_in, norm_out, adding>>

\* the property total_anime read by a caller
total_anime_call ==
    /\ ret' = [op |-> "total_anime", result |-> total_anime]
    /\ UNCHANGED <<index_vars, removed, norm_in, norm_out, adding>>

\* no add_anime call is in progress
Idle == [pc |-> "idle"]

(***************************************************************************)
(* The index specification                                                 *)
(***************************************************************************)
Init ==
    /\ anime_by_id = EmptyTable
    /\ root = EmptyTrie
    /\ genre_trie = EmptyTrie
    /\ studio_trie = EmptyTrie
    /\ ret = [op |-> "init"]
    /\ removed = EmptyTable
    /\ norm_in = <<>>
    /\ norm_out = None
    /\ adding = Idle

AddAnime == \E anime \in Records : add_anime(anime)

RemoveAnime == \E anime_id \in Ids : remove_anime(anime_id)

Clear == clear

SearchByTitleCall ==
    \E prefix \in TitleQueries, limit \in Limits : search_by_title(prefix, limit)

SearchByGenreCall == \E prefix \in GenreQueries : search_by_genre(prefix)

SearchByStudioCall == \E prefix \in StudioQueries : search_by_studio(prefix)

AdvancedSearchCall ==
    \E q \in AdvancedQueries, limit \in Limits :
        advanced_search(q[1], q[2], q[3], limit)

GetAllAnimeCall == get_all_anime

GetSuggestionsCall ==
    \E prefix \in SuggestQueries, max_suggestions \in MaxSuggestions :
        get_suggestions(prefix, max_suggestions)

TotalAnimeCall == total_anime_call

Next ==
    \/ AddAnime
    \/ RemoveAnime
    \/ Clear
    \/ SearchByTitleCall
    \/ SearchByGenreCall
    \/ SearchByStudioCall
    \/ AdvancedSearchCall
    \/ GetAllAnimeCall
    \/ GetSuggestionsCall
    \/ TotalAnimeCall

Spec == Init /\ [][Next]_vars

(***************************************************************************)
(* The normalization specification: _normalize_text applied to every text  *)
(* of bounded length, then applied again to its own result                 *)
(***************************************************************************)
RawAlphabet == {"a", "A", "a_acute", " ", "TAB", "!", "-"}

TextsUpTo(alphabet, n) == UNION {[1..k -> alphabet] : k \in 0..n}

RawTexts == TextsUpTo(RawAlphabet, MaxLen)

InitNormalize ==
    /\ anime_by_id = EmptyTable
    /\ root = EmptyTrie
    /\ genre_trie = EmptyTrie
    /\ studio_trie = EmptyTrie
    /\ ret = [op |-> "init"]
    /\ removed = EmptyTable
    /\ norm_in \in RawTexts
    /\ norm_out = None
    /\ adding = Idle

Normalize ==
    /\ norm_out = None
    /\ norm_out' = _normalize_text(norm_in)
    /\ UNCHANGED <<index_vars, ret, removed, norm_in, adding>>

NormalizeAgain ==
    /\ norm_out # None
    /\ norm_in' = norm_out
    /\ norm_out' = _normalize_text(norm_out)
    /\ UNCHANGED <<index_vars, ret, removed, adding>>

NextNormalize == Normalize \/ NormalizeAgain

SpecNormalize == InitNormalize /\ [][NextNormalize]_vars

(***************************************************************************)
(* The stepwise specification: add_anime runs statement by statement and   *)
(* search_by_title, search_by_genre, search_by_studio and advanced_search  *)
(* run between its steps.  Mutations are serialized:                       *)
(* clear and another add_anime start when no add_anime is in progress.     *)
(* The specification describes the executions in which no remove_anime has *)
(* run since the last clear, so remove_anime is not one of its actions;    *)
(* clear leads back to the initial state.                                  *)
(* adding.pc is "next" between two keys and "walk" inside _add_to_trie;    *)
(* adding.titles, adding.genres and adding.studios are the texts the loops *)
(* have not taken yet; adding.store, adding.node and adding.chars are      *)
(* trie_root, node and the rest of normalized_text of the running walk.    *)
(***************************************************************************)
\* add_anime that never executes self._anime_by_id[anime.id] = anime
PublishNever(table, anime) == table

\* self._anime_by_id[anime.id] = anime, for an identifier not in the table
Publish(table, anime) == table @@ (anime.id :> anime)

StoreOf(i) == IF i = 1 THEN root ELSE IF i = 2 THEN genre_trie ELSE studio_trie

\* the store i becomes trie, the other two stay
SetStore(i, trie) ==
    /\ root' = IF i = 1 THEN trie ELSE root
    /\ genre_trie' = IF i = 2 THEN trie ELSE genre_trie
    /\ studio_trie' = IF i = 3 THEN trie ELSE studio_trie

\* node = trie_root; normalized_text = self._normalize_text(text)
StartWalk(a, i, text) ==
    [a EXCEPT !.pc = "walk", !.store = i, !.node = <<>>,
              !.chars = _normalize_text(text)]

\* the early return for an existing identifier, or the assignment that
\* registers the record
add_begin(anime) ==
    /\ adding = Idle
    /\ IF anime.id \in DOMAIN anime_by_id
       THEN /\ ret' = [op |-> "add_anime", anime |-> anime, existed |-> TRUE,
                       replaced |-> <<>>]
            /\ UNCHANGED <<anime_by_id, removed, adding>>
       ELSE /\ anime_by_id' = Publish(anime_by_id, anime)
            /\ adding' = [pc |-> "next", anime |-> anime,
                          titles |-> TitleSet(anime),
                          genres |-> anime.genres, studios |-> anime.studios,
                          store |-> 1, node |-> <<>>, chars |-> <<>>,
                          replaced |-> IF anime.id \in DOMAIN removed
                                       THEN <<removed[anime.id]>> ELSE <<>>]
            /\ removed' = [i \in DOMAIN removed \ {anime.id} |-> removed[i]]
            /\ UNCHANGED ret
    /\ UNCHANGED <<root, genre_trie, studio_trie, norm_in, norm_out>>

AddBegin == \E anime \in Records : add_begin(anime)

\* for title in titles: if title.strip(): ...   (a set: any order)
AddNextTitle ==
    /\ adding.pc = "next"
    /\ \E title \in adding.titles :
          LET rest == [adding EXCEPT !.titles = @ \ {title}]
          IN  adding' = IF Strip(title) # <<>> THEN StartWalk(rest, 1, title)
                        ELSE rest
    /\ UNCHANGED <<index_vars, ret, removed, norm_in, norm_out>>

\* for genre in anime.genres: ...
AddNextGenre ==
    /\ adding.pc = "next"
    /\ adding.titles = {}
    /\ adding.genres # <<>>
    /\ adding' = StartWalk([adding EXCEPT !.genres = Tail(@)], 2,
                           Head(adding.genres))
    /\ UNCHANGED <<index_vars, ret, removed, norm_in, norm_out>>

\* for studio in anime.studios: ...
AddNextStudio ==
    /\ adding.pc = "next"
    /\ adding.titles = {}
    /\ adding.genres = <<>>
    /\ adding.studios # <<>>
    /\ adding' = StartWalk([adding EXCEPT !.studios = Tail(@)], 3,
                           Head(adding.studios))
    /\ UNCHANGED <<index_vars, ret, removed, norm_in, norm_out>>

\* one iteration of `for char in normalized_text` of _add_to_trie
AddWalkChar ==
    /\ adding.pc = "walk"
    /\ adding.chars # <<>>
    /\ LET trie == StoreOf(adding.store)
           child == Append(adding.node, Head(adding.chars))
           created == IF child \in DOMAIN trie THEN trie
                      ELSE trie @@ (child :> TrieNode)
       IN  /\ SetStore(adding.store,
                       [created EXCEPT ![child].anime_ids =
                                          @ \cup {adding.anime.id}])
           /\ adding' = [adding EXCEPT !.node = child, !.chars = Tail(@)]
    /\ UNCHANGED <<anime_by_id, ret, removed, norm_in, norm_out>>

\* the two statements of _add_to_trie after the loop
AddWalkEnd ==
    /\ adding.pc = "walk"
    /\ adding.chars = <<>>
    /\ SetStore(adding.store,
                [StoreOf(adding.store) EXCEPT
                    ![adding.node].is_end_of_word = TRUE,
                    ![adding.node].anime_ids = @ \cup {adding.anime.id}])
    /\ adding' = [adding EXCEPT !.pc = "next"]
    /\ UNCHANGED <<anime_by_id, ret, removed, norm_in, norm_out>>

\* add_anime returns after the last loop
AddReturn ==
    /\ adding.pc = "next"
    /\ adding.titles = {}
    /\ adding.genres = <<>>
    /\ adding.studios = <<>>
    /\ ret' = [op |-> "add_anime", anime |-> adding.anime, existed |-> FALSE,
               replaced |-> adding.replaced]
    /\ adding' = Idle
    /\ UNCHANGED <<index_vars, removed, norm_in, norm_out>>

ClearSerialized == adding = Idle /\ Clear

NextSteps ==
    \/ AddBegin
    \/ AddNextTitle
    \/ AddNextGenre
    \/ AddNextStudio
    \/ AddWalkChar
    \/ AddWalkEnd
    \/ AddReturn
    \/ ClearSerialized
    \/ SearchByTitleCall
    \/ SearchByGenreCall
    \/ SearchByStudioCall
    \/ AdvancedSearchCall

SpecSteps == Init /\ [][NextSteps]_vars

(***************************************************************************)
(* Vocabulary of the properties                                            *)
(***************************************************************************)
Prefixes(key) == {SubSeq(key, 1, n) : n \in 0..Len(key)}

\* every text of the records of the pool
PoolTexts ==
    UNION {{TextPool[k].title, OrEmpty(TextPool[k].title_english),
            OrEmpty(TextPool[k].title_japanese)}
           \cup {TextPool[k].genres[i] : i \in DOMAIN TextPool[k].genres}
           \cup {TextPool[k].studios[i] : i \in DOMAIN TextPool[k].studios}
           : k \in DOMAIN TextPool}

\* the texts passed as prefixes: every prefix of a text of a record, and
\* texts that are no prefix of any
PrefixTexts ==
    UNION {Prefixes(t) : t \in PoolTexts}
    \cup {<<" ">>, <<"a", " ">>, <<"a", "b", "c">>, <<"b", "a">>, <<"c", "!">>}

\* the normalized keys add_anime derives from a record, per store
TitleKeys(anime) ==
    {_normalize_text(t) : t \in {x \in TitleSet(anime) : Strip(x) # <<>>}}

GenreKeys(anime) ==
    {_normalize_text(anime.genres[i]) : i \in 1..Len(anime.genres)}

StudioKeys(anime) ==
    {_normalize_text(anime.studios[i]) : i \in 1..Len(anime.studios)}

\* the identifiers of the records of a successful result
ResultIds(outcome) == {outcome.value[i].id : i \in 1..Len(outcome.value)}

\* the call returned a list, and the list holds no record with this id
ReturnsWithout(outcome, id) ==
    outcome.status = "ok" /\ id \notin ResultIds(outcome)

\* the call returned a list holding a record with this id
ReturnsWith(outcome, id) ==
    outcome.status = "ok" /\ id \in ResultIds(outcome)

StrictlyAscending(records) ==
    \A i \in 1..Len(records) - 1 : records[i].id < records[i + 1].id

(***************************************************************************)
(* C1 - removal completeness                                               *)
(***************************************************************************)
\* C1: for every record R that was added and then removed (and not added
\* again), and every prefix of every normalized title, genre or studio key
\* derived from R, search_by_title, search_by_genre, search_by_studio and
\* advanced_search return a list that does not hold R's identifier, and the
\* record table no longer holds R.
C1_RemovalCompleteness ==
    \A id \in DOMAIN removed \ DOMAIN anime_by_id :
        LET R == removed[id]
        IN  /\ id \notin DOMAIN anime_by_id
            /\ \A k \in TitleKeys(R) : \A p \in Prefixes(k) :
                  /\ ReturnsWithout(search_by_title_of(p, NoLimit), id)
                  /\ ReturnsWithout(advanced_search_of(p, None, None, NoLimit), id)
            /\ \A k \in GenreKeys(R) : \A p \in Prefixes(k) :
                  /\ ReturnsWithout(search_by_genre_of(p), id)
                  /\ ReturnsWithout(advanced_search_of(None, p, None, NoLimit), id)
            /\ \A k \in StudioKeys(R) : \A p \in Prefixes(k) :
                  /\ ReturnsWithout(search_by_studio_of(p), id)
                  /\ ReturnsWithout(advanced_search_of(None, None, p, NoLimit), id)

(***************************************************************************)
(* C2 - stale-reference safety                                             *)
(***************************************************************************)
\* C2: in every reachable state every search call completes with a list:
\* none of them looks up an identifier that is absent from the record table.
C2_StaleReferenceSafety ==
    /\ \A p \in PrefixTexts :
          /\ search_by_title_of(p, NoLimit).status = "ok"
          /\ search_by_genre_of(p).status = "ok"
          /\ search_by_studio_of(p).status = "ok"
    /\ \A q \in AdvancedQueries :
          advanced_search_of(q[1], q[2], q[3], NoLimit).status = "ok"

(***************************************************************************)
(* C3 - remove-then-add changes the indexed text                           *)
(***************************************************************************)
\* C3: right after add(R') of an identifier that was added as R and removed
\* before, with R' different from R, a title, genre or studio prefix search
\* (prefix with a non-empty normalized form) returns the identifier exactly
\* when the normalized prefix is a prefix of a key derived from R'.
C3_RemoveThenAddReindexes ==
    (/\ ret.op = "add_anime"
     /\ ~ret.existed
     /\ ret.replaced # <<>>
     /\ ret.replaced[1] # ret.anime)
    => LET Rn == ret.anime
           Matches(keys, p) == \E k \in keys : IsPrefix(_normalize_text(p), k)
       IN  \A p \in {q \in PrefixTexts : _normalize_text(q) # <<>>} :
              /\ ReturnsWith(search_by_title_of(p, NoLimit), Rn.id)
                    <=> Matches(TitleKeys(Rn), p)
              /\ ReturnsWith(search_by_genre_of(p), Rn.id)
                    <=> Matches(GenreKeys(Rn), p)
              /\ ReturnsWith(search_by_studio_of(p), Rn.id)
                    <=> Matches(StudioKeys(Rn), p)

(***************************************************************************)
(* C4 - intersection correctness                                           *)
(***************************************************************************)
\* C4: for all prefix strings t, g, s the identifiers returned by
\* advanced_search(t, g, s) are the intersection of the identifiers returned
\* by search_by_title(t), search_by_genre(g) and search_by_studio(s).
C4_IntersectionCorrectness ==
    \A t \in PrefixTexts, g \in PrefixTexts, s \in PrefixTexts :
        LET a == advanced_search_of(t, g, s, NoLimit)
            x == search_by_title_of(t, NoLimit)
            y == search_by_genre_of(g)
            z == search_by_studio_of(s)
        IN  /\ a.status = "ok" /\ x.status = "ok"
            /\ y.status = "ok" /\ z.status = "ok"
            /\ ResultIds(a) = ResultIds(x) \cap ResultIds(y) \cap ResultIds(z)

(***************************************************************************)
(* C5 - prefix monotonicity                                                *)
(***************************************************************************)
Stores == <<root, genre_trie, studio_trie>>

StrictPrefixes(text) == {SubSeq(text, 1, n) : n \in 0..Len(text) - 1}

C6_AddExistingIsNoOp ==
    [][(ret'.op = "add_anime" /\ ret'.anime.id \in DOMAIN anime_by_id)
       => /\ anime_by_id' = anime_by_id
          /\ root' = root
          /\ genre_trie' = genre_trie
          /\ studio_trie' = studio_trie
          /\ Cardinality(DOMAIN anime_by_id') = total_anime
          /\ \A p \in TitleQueries :
                SearchByTitle(anime_by_id', root', p, NoLimit)
                   = SearchByTitle(anime_by_id, root, p, NoLimit)
          /\ \A p \in GenreQueries :
                SearchByGenre(anime_by_id', genre_trie', p)
                   = SearchByGenre(anime_by_id, genre_trie, p)
          /\ \A p \in StudioQueries :
                SearchByStudio(anime_by_id', studio_trie', p)
                   = SearchByStudio(anime_by_id, studio_trie, p)
          /\ AdvancedSearch(anime_by_id', root', genre_trie', studio_trie',
                            None, None, None, NoLimit)
                = AdvancedSearch(anime_by_id, root, genre_trie, studio_trie,
                                 None, None, None, NoLimit)]_vars

\* add_anime was called with a record that differs from the stored record of
\* the same identifier
C6_Witness ==
    /\ ret.op = "add_anime"
    /\ ret.existed
    /\ ret.anime.id \in DOMAIN anime_by_id
    /\ anime_by_id[ret.anime.id] # ret.anime

(***************************************************************************)
(* C7 - remove_anime reports not-found by value                            *)
(***************************************************************************)
\* C7: remove_anime(id) with id absent from the record table returns False
\* and leaves the record table and the three tries unchanged; with id
\* present it returns True, the record table keeps exactly the other
\* identifiers with their records, and total_anime decreases by one.
C7_RemoveReportsByValue ==
    [][ret'.op = "remove_anime"
       => IF ret'.anime_id \notin DOMAIN anime_by_id
          THEN /\ ret'.result = FALSE
               /\ UNCHANGED index_vars
          ELSE /\ ret'.result = TRUE
               /\ DOMAIN anime_by_id' = DOMAIN anime_by_id \ {ret'.anime_id}
               /\ \A i \in DOMAIN anime_by_id' : anime_by_id'[i] = anime_by_id[i]
               /\ Cardinality(DOMAIN anime_by_id') = total_anime - 1]_vars

\* a second remove_anime of an identifier that was removed before returned
\* False while another record is still in the table
C7_Witness ==
    /\ ret.op = "remove_anime"
    /\ ret.result = FALSE
    /\ ret.anime_id \in DOMAIN removed
    /\ anime_by_id # EmptyTable

(***************************************************************************)
(* C8 - normalization is idempotent                                        *)
(***************************************************************************)
\* C8: for every input text s, normalize(normalize(s)) = normalize(s), and
\* the key has no leading or trailing whitespace and no run of more than
\* one whitespace character.
C8_NormalizationIdempotent ==
    norm_out # None
    => /\ _normalize_text(norm_out) = norm_out
       /\ norm_out # <<>> => (~IsSpace(Head(norm_out))
                              /\ ~IsSpace(norm_out[Len(norm_out)]))
       /\ \A i \in 1..Len(norm_out) - 1 :
             ~(IsSpace(norm_out[i]) /\ IsSpace(norm_out[i + 1]))

(***************************************************************************)
(* C9 - ordering and truncation                                            *)
(***************************************************************************)
\* the result is the first min(n, matches) records of the full result
IsTruncationOf(result, full, limit) ==
    /\ result.status = "ok"
    /\ full.status = "ok"
    /\ StrictlyAscending(full.value)
    /\ result.value =
          IF limit = NoLimit THEN full.value
          ELSE SubSeq(full.value, 1,
                      IF limit[1] < Len(full.value) THEN limit[1]
                      ELSE Len(full.value))

\* C9: search_by_title(prefix, limit) and advanced_search(..., limit) return
\* the matching records in strictly ascending identifier order, cut to the
\* first min(n, matches) records for every given limit n >= 0, and in full
\* when no limit is given.
C9_OrderingAndTruncation ==
    \A limit \in Limits :
        /\ \A p \in PrefixTexts :
              IsTruncationOf(search_by_title_of(p, limit),
                             search_by_title_of(p, NoLimit), limit)
        /\ \A q \in AdvancedQueries :
              IsTruncationOf(advanced_search_of(q[1], q[2], q[3], limit),
                             advanced_search_of(q[1], q[2], q[3], NoLimit), limit)

(***************************************************************************)
(* C10 - advanced_search without any field                                 *)
(***************************************************************************)
\* C10: advanced_search() with the three prefixes absent returns exactly
\* the records of the record table, each once, in ascending identifier
\* order.
C10_AdvancedSearchNoField ==
    LET r == advanced_search_of(None, None, None, NoLimit)
    IN  /\ r.status = "ok"
        /\ Len(r.value) = Cardinality(DOMAIN anime_by_id)
        /\ ResultIds(r) = DOMAIN anime_by_id
        /\ StrictlyAscending(r.value)
        /\ \A i \in 1..Len(r.value) : r.value[i] = anime_by_id[r.value[i].id]

\* advanced_search() was called without any field and returned two records
C10_Witness ==
    /\ ret.op = "advanced_search"
    /\ ret.title_prefix = None
    /\ ret.genre_prefix = None
    /\ ret.studio_prefix = None
    /\ ret.limit = NoLimit
    /\ ret.result.status = "ok"
    /\ Len(ret.result.value) = 2

(***************************************************************************)
(* C11 - suggestion soundness                                              *)
(***************************************************************************)
\* the display titles of the records of the table that have a title key
\* starting with the normalized prefix
LiveTitleMatches(prefix) ==
    {display_title(anime_by_id[id]) :
        id \in {i \in DOMAIN anime_by_id :
                  \E k \in TitleKeys(anime_by_id[i]) :
                     IsPrefix(_normalize_text(prefix), k)}}

\* the lists get_suggestions may return in the current state
get_suggestions_of(prefix, max_suggestions) ==
    GetSuggestionsOutcomes(anime_by_id, root, prefix, max_suggestions)

\* C11: every text returned by get_suggestions(prefix, max_suggestions) is
\* the display title of a record of the record table that has a title key
\* whose normalized form starts with the normalized prefix, and no text is
\* returned twice.
C11_SuggestionSoundness ==
    \A p \in PrefixTexts : \A m \in MaxSuggestions :
        \A result \in get_suggestions_of(p, m) :
            /\ \A i \in 1..Len(result) : result[i] \in LiveTitleMatches(p)
            /\ \A i, j \in 1..Len(result) : i # j => result[i] # result[j]

(***************************************************************************)
(* C12 - suggestion count                                                  *)
(***************************************************************************)
\* C12: get_suggestions(prefix, max_suggestions) returns exactly
\* min(max_suggestions, N) texts in ascending order, N being the number of
\* distinct display titles of records of the table with a title key that
\* starts with the normalized prefix.
C12_SuggestionCount ==
    \A p \in PrefixTexts : \A m \in MaxSuggestions :
        \A result \in get_suggestions_of(p, m) :
            LET N == Cardinality(LiveTitleMatches(p))
            IN  /\ Len(result) = IF m < N THEN m ELSE N
                /\ \A i \in 1..Len(result) - 1 :
                      TextLess(result[i], result[i + 1])

(***************************************************************************)
(* C13 - clear resets to the initial state                                 *)
(***************************************************************************)
\* every query on this index state returns an empty result without failing
AllQueriesEmpty(table, tt, gt, st) ==
    /\ \A p \in PrefixTexts :
          /\ \A limit \in Limits : SearchByTitle(table, tt, p, limit) = Ok(<<>>)
          /\ SearchByGenre(table, gt, p) = Ok(<<>>)
          /\ SearchByStudio(table, st, p) = Ok(<<>>)
          /\ \A m \in MaxSuggestions :
                GetSuggestionsOutcomes(table, tt, p, m) = {<<>>}
    /\ \A q \in AdvancedQueries : \A limit \in Limits :
          AdvancedSearch(table, tt, gt, st, q[1], q[2], q[3], limit) = Ok(<<>>)
    /\ GetAllAnimeOutcomes(table) = {<<>>}

\* the queries on the index as __init__ builds it
FreshIndexQueriesEmpty ==
    AllQueriesEmpty(EmptyTable, EmptyTrie, EmptyTrie, EmptyTrie)

\* C13: after clear() the record table is empty, total_anime is 0, each of
\* the three tries is an empty root, and every query returns an empty result
\* without failing, as on a never-populated index (the state after clear is
\* the state __init__ builds, on which every query returns an empty result);
\* a record added right after clear is indexed exactly as it is into a fresh
\* index.
C13_ClearResets ==
    [][/\ ret'.op = "clear"
          => /\ anime_by_id' = EmptyTable
             /\ Cardinality(DOMAIN anime_by_id') = 0
             /\ root' = EmptyTrie
             /\ genre_trie' = EmptyTrie
             /\ studio_trie' = EmptyTrie
             /\ FreshIndexQueriesEmpty
       /\ (ret.op = "clear" /\ ret'.op = "add_anime")
          => LET fresh == AddAnimeIndex(EmptyTable, EmptyTrie, EmptyTrie,
                                        EmptyTrie, ret'.anime)
             IN  /\ anime_by_id' = fresh.table
                 /\ root' = fresh.root
                 /\ genre_trie' = fresh.genre_trie
                 /\ studio_trie' = fresh.studio_trie]_vars

\* clear was called on a table that held two or more records
C13_Witness ==
    /\ ret.op = "clear"
    /\ Cardinality(ret.dropped) >= 2

(***************************************************************************)
(* C14 - empty keys are never inserted                                     *)
(***************************************************************************)
\* the title, the alternate titles and every genre and studio name of the
\* record normalize to the empty key
AllKeysEmpty(anime) ==
    /\ \A t \in TitleSet(anime) : _normalize_text(t) = <<>>
    /\ \A i \in 1..Len(anime.genres) : _normalize_text(anime.genres[i]) = <<>>
    /\ \A i \in 1..Len(anime.studios) : _normalize_text(anime.studios[i]) = <<>>

\* C14: add_anime of a new record all of whose texts normalize to the empty
\* key registers the record in the record table and leaves the three tries
\* unchanged, so that get_all_anime returns the record and no
\* search_by_title, search_by_genre or search_by_studio call returns it, for
\* any prefix, the empty prefix included.
C14_EmptyKeysNeverInserted ==
    [][(ret'.op = "add_anime" /\ ~ret'.existed /\ AllKeysEmpty(ret'.anime))
       => LET id == ret'.anime.id
          IN  /\ id \in DOMAIN anime_by_id'
              /\ anime_by_id'[id] = ret'.anime
              /\ root' = root
              /\ genre_trie' = genre_trie
              /\ studio_trie' = studio_trie
              /\ \A all \in GetAllAnimeOutcomes(anime_by_id') :
                    \E i \in 1..Len(all) : all[i].id = id
              /\ \A p \in PrefixTexts :
                    /\ ~ReturnsWith(SearchByTitle(anime_by_id', root', p, NoLimit), id)
                    /\ ~ReturnsWith(SearchByGenre(anime_by_id', genre_trie', p), id)
                    /\ ~ReturnsWith(SearchByStudio(anime_by_id', studio_trie', p), id)]_vars

(***************************************************************************)
(* C15 - cross-store invariant                                             *)
(***************************************************************************)
\* the identifiers held by the nodes of a trie
NodeIds(trie) == UNION {trie[n].anime_ids : n \in DOMAIN trie}

\* C15: every identifier in the identifier set of a node of the title, genre
\* or studio trie is in the record table.
C15_CrossStoreInvariant ==
    \A i \in 1..3 : NodeIds(Stores[i]) \subseteq DOMAIN anime_by_id

(***************************************************************************)
(* C16 - live records are fully indexed                                    *)
(***************************************************************************)
\* the primary title, the display title and the alternate titles of a record
TitleTexts(anime) ==
    {anime.title, display_title(anime)}
    \cup {t \in {anime.title_english, anime.title_japanese} : t # None}

NameTexts(names) == {names[i] : i \in 1..Len(names)}

\* the non-empty normalized keys of a set of texts
NonEmptyKeys(texts) == {_normalize_text(t) : t \in texts} \ {<<>>}

\* the trie has a node for every non-empty prefix of the key, each holding
\* the identifier, and the node of the key is flagged
FullyIndexed(trie, key, id) ==
    /\ \A n \in 1..Len(key) :
          /\ SubSeq(key, 1, n) \in DOMAIN trie
          /\ id \in trie[SubSeq(key, 1, n)].anime_ids
    /\ trie[key].is_end_of_word

\* C16: for every identifier of the record table and every non-empty
\* normalized key derived from the primary title, display title, alternate
\* titles, genre names and studio names of the stored record, the trie of
\* that field has a node for every non-empty prefix of the key, each of these
\* nodes holds the identifier, and the node of the full key is flagged
\* is_end_of_word.
C16_LiveRecordsFullyIndexed ==
    \A id \in DOMAIN anime_by_id :
        LET anime == anime_by_id[id]
        IN  /\ \A k \in NonEmptyKeys(TitleTexts(anime)) : FullyIndexed(root, k, id)
            /\ \A k \in NonEmptyKeys(NameTexts(anime.genres)) :
                  FullyIndexed(genre_trie, k, id)
            /\ \A k \in NonEmptyKeys(NameTexts(anime.studios)) :
                  FullyIndexed(studio_trie, k, id)

\* an identifier was removed and added again with other texts while another
\* record is in the table, and a stored record has two title keys or more
C16_Witness ==
    /\ ret.op = "add_anime"
    /\ ~ret.existed
    /\ ret.replaced # <<>>
    /\ ret.replaced[1] # ret.anime
    /\ Cardinality(DOMAIN anime_by_id) >= 2
    /\ \E id \in DOMAIN anime_by_id :
          Cardinality(NonEmptyKeys(TitleTexts(anime_by_id[id]))) >= 2

(***************************************************************************)
(* C17 - prefix query equals the reference scan                            *)
(***************************************************************************)
\* the keys add_anime indexes for a record in each of the three tries
StoreKeys(anime) == <<TitleKeys(anime), GenreKeys(anime), StudioKeys(anime)>>

\* the identifiers a scan of the indexed keys of the records of the table
\* yields for a prefix
ScanIds(i, prefix) ==
    {id \in DOMAIN anime_by_id :
        \E k \in StoreKeys(anime_by_id[id])[i] :
           IsPrefix(_normalize_text(prefix), k)}

\* C17: for each of the three tries and every prefix p, the empty prefix
\* included, the identifier set _search_in_trie returns for p is exactly the
\* set of identifiers of records of the table that have a key indexed in that
\* trie whose normalized form starts with the normalized p.
C17_PrefixQueryEqualsScan ==
    \A i \in 1..3 : \A p \in PrefixTexts :
        _search_in_trie(Stores[i], p) = ScanIds(i, p)

(***************************************************************************)
(* C18 - removal prunes the stores                                         *)
(***************************************************************************)
\* the non-empty prefixes of the keys indexed for the records of the table
LivePaths(i) ==
    UNION {UNION {Prefixes(k) \ {<<>>} : k \in StoreKeys(anime_by_id[id])[i]} :
             id \in DOMAIN anime_by_id}

\* C18: the non-root nodes of each trie are exactly the non-empty prefixes
\* of the normalized keys of the records of the table, and when the table is
\* empty each trie is an empty root only.
C18_RemovalPrunes ==
    \A i \in 1..3 :
        /\ DOMAIN Stores[i] \ {<<>>} = LivePaths(i)
        /\ anime_by_id = EmptyTable => Stores[i] = EmptyTrie

(***************************************************************************)
(* C19 - queries have no effect on state                                   *)
(***************************************************************************)
QueryOps ==
    {"search_by_title", "search_by_genre", "search_by_studio",
     "advanced_search", "get_suggestions", "get_all_anime", "total_anime"}

\* C19: every call of search_by_title, search_by_genre, search_by_studio,
\* advanced_search, get_suggestions, get_all_anime and total_anime leaves the
\* record table and the nodes, flags and identifier sets of the three tries
\* unchanged; a prefix that is not in a trie creates no node.
C19_QueriesHaveNoEffect ==
    [][ret'.op \in QueryOps
       => /\ anime_by_id' = anime_by_id
          /\ root' = root
          /\ genre_trie' = genre_trie
          /\ studio_trie' = studio_trie
          /\ DOMAIN root' = DOMAIN root
          /\ DOMAIN genre_trie' = DOMAIN genre_trie
          /\ DOMAIN studio_trie' = DOMAIN studio_trie]_vars

\* search_by_genre was called on a populated index with a prefix for which
\* the genre trie has no node
C19_Witness ==
    /\ ret.op = "search_by_genre"
    /\ anime_by_id # EmptyTable
    /\ ~FindNode(genre_trie, <<>>, _normalize_text(ret.prefix)).found

(***************************************************************************)
(* C20 - add_anime publishes the record before it indexes it               *)
(***************************************************************************)
\* C20: in the executions without a remove_anime since the last clear, in
\* every state of the stepwise add_anime, the states between its steps
\* included, every identifier in the identifier set of a node of the three
\* tries is in the record table, so that search_by_title, search_by_genre,
\* search_by_studio and advanced_search run at that point complete without
\* looking up an identifier missing from the table.
C20_AddPublishesBeforeIndexing ==
    /\ \A i \in 1..3 : NodeIds(Stores[i]) \subseteq DOMAIN anime_by_id
    /\ \A p \in PrefixTexts :
          /\ search_by_title_of(p, NoLimit).status = "ok"
          /\ search_by_genre_of(p).status = "ok"
          /\ search_by_studio_of(p).status = "ok"
    /\ \A q \in AdvancedQueries :
          advanced_search_of(q[1], q[2], q[3], NoLimit).status = "ok"

\* a search_by_title that ran inside the walk of a title of an add_anime in
\* progress returned the record being added
C20_Witness ==
    /\ adding.pc = "walk"
    /\ adding.chars # <<>>
    /\ ret.op = "search_by_title"
    /\ ReturnsWith(ret.result, adding.anime.id)

====
